---- MODULE Spec2Model ----
(***************************************************************************)
(* Model of the overseer comment scanner (src/main.py, src/config.py).     *)
(* Strings are sequences of one-character strings, so that find, rfind,    *)
(* strip, startswith and slicing are computed character by character.      *)
(***************************************************************************)
EXTENDS Integers, Sequences, FiniteSets, TLC

VARIABLES
    pc,                    \* position of the program
    args,                  \* parsed command line: [include_all, skip]
    skip_markers,          \* CommentScanner.skip_markers
    file_path,             \* name of the scanned file
    file_status,           \* "ok", "undecodable" or "unreadable"
    lines,                 \* the file's lines (line terminator left out)
    line_num,              \* loop index of scan_file
    in_multiline_comment,  \* scan_file local
    multiline_content,     \* scan_file local
    comments,              \* scan_file's result list
    spans,                 \* the calls made to _process_comment, in order
    comment_line_idx,      \* get_context_lines argument
    context,               \* get_context_lines result
    workspace,             \* scan_workspace: the files under the root
    pattern_idx,           \* scan_workspace: index into FILE_PATTERNS
    pending,               \* scan_workspace: files left of the current rglob
    all_comments,          \* scan_workspace's result list
    errors,                \* paths for which "Error scanning" was printed
    scanned,               \* paths handed to scan_file, in order
    output                 \* rows written: [table, pdf, xlsx]

vars == << pc, args, skip_markers, file_path, file_status, lines, line_num,
           in_multiline_comment, multiline_content, comments, spans,
           comment_line_idx, context, workspace, pattern_idx, pending,
           all_comments, errors, scanned, output >>

-----------------------------------------------------------------------------
(* Bounds of the model *)

MaxLines == 3        \* longest file of the tokenizer specification
MaxCtxLines == 6     \* longest line array given to get_context_lines
MaxFiles == 3        \* files in a workspace

-----------------------------------------------------------------------------
(* Python string primitives *)

Whitespace == {" ", "\t", "\n"}

Min(a, b) == IF a < b THEN a ELSE b
Max(a, b) == IF a > b THEN a ELSE b

\* s[a:b] for 0 <= a, 0 <= b (0-based, b exclusive, clipped to the string)
Slice(s, a, b) == SubSeq(s, a + 1, Min(b, Len(s)))

\* s[a:]
SliceFrom(s, a) == SubSeq(s, a + 1, Len(s))

\* the 0-based positions at which p occurs in s
Occurrences(s, p) ==
    { i \in 0..(Len(s) - Len(p)) : SubSeq(s, i + 1, i + Len(p)) = p }

\* s.find(p)
Find(s, p) ==
    LET occ == Occurrences(s, p)
    IN  IF occ = {} THEN -1 ELSE CHOOSE i \in occ : \A j \in occ : i <= j

\* s.rfind(p)
RFind(s, p) ==
    LET occ == Occurrences(s, p)
    IN  IF occ = {} THEN -1 ELSE CHOOSE i \in occ : \A j \in occ : i >= j

\* p in s
Contains(s, p) == Occurrences(s, p) # {}

\* s.startswith(p)
StartsWith(s, p) == Len(p) <= Len(s) /\ SubSeq(s, 1, Len(p)) = p

RECURSIVE LStrip(_)
LStrip(s) ==
    IF s # <<>> /\ Head(s) \in Whitespace THEN LStrip(Tail(s)) ELSE s

RECURSIVE RStrip(_)
RStrip(s) ==
    IF s # <<>> /\ s[Len(s)] \in Whitespace
    THEN RStrip(SubSeq(s, 1, Len(s) - 1))
    ELSE s

\* s.strip()
Strip(s) == RStrip(LStrip(s))

\* sep.join(parts)
RECURSIVE Join(_, _)
Join(parts, sep) ==
    IF parts = <<>> THEN <<>>
    ELSE IF Len(parts) = 1 THEN parts[1]
    ELSE parts[1] \o sep \o Join(Tail(parts), sep)

UpperCase == << "A", "B", "C", "D", "E", "F", "G", "H", "I", "J", "K", "L", "M",
                "N", "O", "P", "Q", "R", "S", "T", "U", "V", "W", "X", "Y", "Z" >>
LowerCase == << "a", "b", "c", "d", "e", "f", "g", "h", "i", "j", "k", "l", "m",
                "n", "o", "p", "q", "r", "s", "t", "u", "v", "w", "x", "y", "z" >>

\* s.lower()
Lower(s) ==
    [ i \in 1..Len(s) |->
        IF \E k \in 1..26 : UpperCase[k] = s[i]
        THEN LowerCase[CHOOSE k \in 1..26 : UpperCase[k] = s[i]]
        ELSE s[i] ]

-----------------------------------------------------------------------------
(* config.py *)

\* the glob patterns scan_workspace walks, in order, repetitions included
FILE_PATTERNS == <<
    <<"*", ".", "t", "s">>,
    <<"*", ".", "t", "s", "x">>,
    <<"*", ".", "j", "s">>,
    <<"*", ".", "j", "s", "x">>,
    <<"*", ".", "p", "y">>,
    <<"*", ".", "r", "s">>,
    <<"*", ".", "g", "o">>,
    <<"*", ".", "j", "a", "v", "a">>,
    <<"*", ".", "c">>,
    <<"*", ".", "h">>,
    <<"*", ".", "c", "p", "p">>,
    <<"*", ".", "h", "p", "p">>,
    <<"*", ".", "c", "s">>,
    <<"*", ".", "v", "b">>,
    <<"*", ".", "s", "q", "l">>,
    <<"*", ".", "m", "d">>,
    <<"*", ".", "t", "x", "t">>,
    <<"*", ".", "y", "a", "m", "l">>,
    <<"*", ".", "y", "m", "l">>,
    <<"*", ".", "x", "m", "l">>,
    <<"*", ".", "h", "t", "m", "l">>,
    <<"*", ".", "c", "s", "s">>,
    <<"*", ".", "s", "c", "s", "s">>,
    <<"*", ".", "s", "a", "s", "s">>,
    <<"*", ".", "l", "e", "s", "s">>,
    <<"*", ".", "s", "t", "y", "l">>,
    <<"*", ".", "s", "t", "y", "l", "u", "s">>,
    <<"*", ".", "s", "c", "s", "s">>,
    <<"*", ".", "s", "a", "s", "s">>,
    <<"*", ".", "l", "e", "s", "s">>,
    <<"*", ".", "s", "t", "y", "l">>,
    <<"*", ".", "s", "t", "y", "l", "u", "s">>,
    <<"*", ".", "s", "c", "s", "s">>,
    <<"*", ".", "s", "a", "s", "s">>,
    <<"*", ".", "l", "e", "s", "s">>,
    <<"*", ".", "s", "t", "y", "l">>,
    <<"*", ".", "s", "t", "y", "l", "u", "s">>
>>

M_IMPORTANT == <<"!">>
M_TODO == <<"T", "O", "D", "O">>
M_QUESTION == <<"?">>
M_REVIEW == <<"R", "E", "V", "I", "E", "W">>
M_FIXME == <<"F", "I", "X", "M", "E">>
M_NOTE == <<"N", "O", "T", "E">>

\* the keys of COMMENT_MARKERS in insertion order, the order a dict iterates in
COMMENT_MARKERS == << M_IMPORTANT, M_TODO, M_QUESTION, M_REVIEW, M_FIXME, M_NOTE >>

MarkerSet == { COMMENT_MARKERS[i] : i \in 1..Len(COMMENT_MARKERS) }

DEFAULT_EXCLUDES == {
    <<"n", "o", "d", "e", "_", "m", "o", "d", "u", "l", "e", "s">>,
    <<"_", "_", "p", "y", "c", "a", "c", "h", "e", "_", "_">>,
    <<"b", "u", "i", "l", "d">>,
    <<"d", "i", "s", "t">> }

DEFAULT_SKIP_MARKERS == { M_NOTE }

CONTEXT_LINES == 2

\* COMMENT_PATTERNS as its entries; multiline None is the empty tuple (falsy)
PatternTable == <<
    [key |-> <<"d", "e", "f", "a", "u", "l", "t">>,
     pat |-> [single |-> << <<"/", "/">> >>, multiline |-> <<>>]],
    [key |-> <<"p", "y">>,
     pat |-> [single |-> << <<"#">> >>, multiline |-> << <<"\"", "\"", "\"">>, <<"\"", "\"", "\"">> >>]],
    [key |-> <<"j", "s">>,
     pat |-> [single |-> << <<"/", "/">> >>, multiline |-> << <<"/", "*">>, <<"*", "/">> >>]],
    [key |-> <<"t", "s">>,
     pat |-> [single |-> << <<"/", "/">> >>, multiline |-> << <<"/", "*">>, <<"*", "/">> >>]],
    [key |-> <<"c">>,
     pat |-> [single |-> << <<"/", "/">> >>, multiline |-> << <<"/", "*">>, <<"*", "/">> >>]],
    [key |-> <<"c", "p", "p">>,
     pat |-> [single |-> << <<"/", "/">> >>, multiline |-> << <<"/", "*">>, <<"*", "/">> >>]],
    [key |-> <<"h">>,
     pat |-> [single |-> << <<"/", "/">> >>, multiline |-> << <<"/", "*">>, <<"*", "/">> >>]],
    [key |-> <<"j", "a", "v", "a">>,
     pat |-> [single |-> << <<"/", "/">> >>, multiline |-> << <<"/", "*">>, <<"*", "/">> >>]],
    [key |-> <<"r", "b">>,
     pat |-> [single |-> << <<"#">> >>, multiline |-> << <<"=", "b", "e", "g", "i", "n">>, <<"=", "e", "n", "d">> >>]],
    [key |-> <<"p", "h", "p">>,
     pat |-> [single |-> << <<"/", "/">> >>, multiline |-> << <<"/", "*">>, <<"*", "/">> >>]]
>>

PatternKeys == { PatternTable[i].key : i \in 1..Len(PatternTable) }

\* config.COMMENT_PATTERNS[key]
COMMENT_PATTERNS(key) ==
    PatternTable[CHOOSE i \in 1..Len(PatternTable) : PatternTable[i].key = key].pat


-----------------------------------------------------------------------------
(* CommentScanner: construction, context window, marker extraction *)

\* CommentScanner.__init__: skip_markers or config.DEFAULT_SKIP_MARKERS
\* (an empty set is falsy)
InitSkipMarkers(skip) == IF skip # {} THEN skip ELSE DEFAULT_SKIP_MARKERS

\* main: set() if args.include_all else set(args.skip)
SuppliedSkip(a) == IF a.include_all THEN {} ELSE a.skip

\* Path.suffix of a file name: from the last dot, unless the name starts or
\* ends with it
Suffix(name) ==
    LET i == RFind(name, <<".">>)
    IN  IF 0 < i /\ i < Len(name) - 1 THEN SliceFrom(name, i) ELSE <<>>

\* mutant: the suffix taken as written, not lowercased
FileExtension_raw(path) == SliceFrom(Suffix(path), 1)

\* file_path.suffix.lower()[1:]
FileExtension(path) == SliceFrom(Lower(Suffix(path)), 1)

\* the entries appended for range(from, to): stripped, empty ones skipped,
\* each behind two spaces
RECURSIVE ContextRange(_, _, _)
ContextRange(all_lines, from, to) ==
    IF from >= to THEN <<>>
    ELSE LET line == Strip(all_lines[from + 1])
         IN  (IF line # <<>> THEN << <<" ", " ">> \o line >> ELSE <<>>)
             \o ContextRange(all_lines, from + 1, to)

Arrow == <<"->", " ">>
Newline == <<"\n">>

\* mutant: the window before the target starts one line early
get_context_lines_wide(all_lines, idx) ==
    LET start_idx == Max(0, idx - CONTEXT_LINES - 1)
        end_idx == Min(Len(all_lines), idx + CONTEXT_LINES + 1)
    IN  Join(ContextRange(all_lines, start_idx, idx)
             \o << Arrow \o Strip(all_lines[idx + 1]) >>
             \o ContextRange(all_lines, idx + 1, end_idx),
             Newline)

\* get_context_lines(all_lines, comment_line_idx), indices 0-based
get_context_lines(all_lines, idx) ==
    LET start_idx == Max(0, idx - CONTEXT_LINES)
        end_idx == Min(Len(all_lines), idx + CONTEXT_LINES + 1)
    IN  Join(ContextRange(all_lines, start_idx, idx)
             \o << Arrow \o Strip(all_lines[idx + 1]) >>
             \o ContextRange(all_lines, idx + 1, end_idx),
             Newline)

\* the loop of _process_comment from the k-th marker on
RECURSIVE ProcessFrom(_, _, _, _, _, _, _)
ProcessFrom(k, comment_text, cmts, path, n, all_lines, skip) ==
    IF k > Len(COMMENT_MARKERS) THEN cmts
    ELSE LET marker == COMMENT_MARKERS[k]
         IN  IF StartsWith(comment_text, marker) /\ marker \notin skip
             THEN Append(cmts,
                      [ type |-> marker,
                        text |-> Strip(SliceFrom(comment_text, Len(marker))),
                        file |-> path,
                        line |-> n + 1,
                        context |-> get_context_lines(all_lines, n) ])
             ELSE ProcessFrom(k + 1, comment_text, cmts, path, n, all_lines, skip)

\* mutant: a marker found anywhere in the text, not only at its start
RECURSIVE ProcessFromAnywhere(_, _, _, _, _, _, _)
ProcessFromAnywhere(k, comment_text, cmts, path, n, all_lines, skip) ==
    IF k > Len(COMMENT_MARKERS) THEN cmts
    ELSE LET marker == COMMENT_MARKERS[k]
         IN  IF Contains(comment_text, marker) /\ marker \notin skip
             THEN Append(cmts,
                      [ type |-> marker,
                        text |-> Strip(SliceFrom(comment_text, Len(marker))),
                        file |-> path,
                        line |-> n + 1,
                        context |-> get_context_lines(all_lines, n) ])
             ELSE ProcessFromAnywhere(k + 1, comment_text, cmts, path, n, all_lines, skip)

process_comment_anywhere(comment_text, cmts, path, n, all_lines, skip) ==
    ProcessFromAnywhere(1, comment_text, cmts, path, n, all_lines, skip)

\* mutant: the skip-set is not consulted
process_comment_noskip(comment_text, cmts, path, n, all_lines, skip) ==
    ProcessFrom(1, comment_text, cmts, path, n, all_lines, {})

\* mutant: the index of enumerate(lines) is stored as the line number
process_comment_zero_based(comment_text, cmts, path, n, all_lines, skip) ==
    LET r == ProcessFrom(1, comment_text, cmts, path, n, all_lines, skip)
    IN  IF Len(r) > Len(cmts) THEN [ r EXCEPT ![Len(r)].line = n ] ELSE r

\* _process_comment(comment_text, comments, file_path, line_num, lines)
process_comment(comment_text, cmts, path, n, all_lines, skip) ==
    ProcessFrom(1, comment_text, cmts, path, n, all_lines, skip)

-----------------------------------------------------------------------------
(* CommentScanner.scan_file: the per-line loop *)

HasBlock(g) == g.multiline # <<>>
StartPattern(g) == g.multiline[1]
EndPattern(g) == g.multiline[2]

AnySingle(g, stripped_line) ==
    \E k \in 1..Len(g.single) : Contains(stripped_line, g.single[k])

\* the fast path of the loop: no single prefix and no block delimiter
FastReject(g, stripped_line) ==
    /\ ~AnySingle(g, stripped_line)
    /\ ~(HasBlock(g) /\ (\/ Contains(stripped_line, StartPattern(g))
                         \/ Contains(stripped_line, EndPattern(g))))

\* the text that follows the first start delimiter
AfterStart(g, stripped_line) ==
    SliceFrom(stripped_line,
              Find(stripped_line, StartPattern(g)) + Len(StartPattern(g)))

\* mutant: no same-line rule, every start delimiter opens a block
SameLineBlock_never(g, stripped_line) == FALSE

\* start and end delimiter on one line, the end after the start
SameLineBlock(g, stripped_line) ==
    /\ Contains(stripped_line, StartPattern(g))
    /\ Contains(AfterStart(g, stripped_line), EndPattern(g))

\* comment text of a same-line block: from after the first start delimiter
\* to the last end delimiter
SameLineText(g, stripped_line) ==
    Strip(Slice(stripped_line,
                Find(stripped_line, StartPattern(g)) + Len(StartPattern(g)),
                RFind(stripped_line, EndPattern(g))))

\* the fragment a closing line adds: what precedes the first end delimiter
BeforeEnd(g, stripped_line) ==
    Strip(Slice(stripped_line, 0, Find(stripped_line, EndPattern(g))))

\* the first single-line prefix, in order, that occurs in the line
FirstSingle(g, stripped_line) ==
    g.single[CHOOSE k \in 1..Len(g.single) :
                /\ Contains(stripped_line, g.single[k])
                /\ \A j \in 1..(k - 1) : ~Contains(stripped_line, g.single[j])]

SingleText(g, stripped_line) ==
    LET pattern == FirstSingle(g, stripped_line)
    IN  Strip(SliceFrom(stripped_line,
                        Find(stripped_line, pattern) + Len(pattern)))

\* mutant: outside a block the single-line prefixes are tried before a
\* block is opened
Branch_single_first(g, in_block, line) ==
    LET stripped_line == Strip(line)
    IN  IF stripped_line = <<>> THEN "blank"
        ELSE IF FastReject(g, stripped_line) THEN "fast"
        ELSE IF HasBlock(g) /\ SameLineBlock(g, stripped_line) THEN "same_line"
        ELSE IF ~in_block /\ AnySingle(g, stripped_line) THEN "single"
        ELSE IF HasBlock(g) /\ Contains(stripped_line, StartPattern(g)) /\ ~in_block
             THEN "open"
        ELSE IF HasBlock(g) /\ in_block /\ Contains(stripped_line, EndPattern(g))
             THEN "close"
        ELSE IF HasBlock(g) /\ in_block THEN "continue"
        ELSE "none"

\* mutant: a line inside a block that does not close it goes on to the
\* single-line prefixes (the continue after the append is missing)
Branch_fallthrough(g, in_block, line) ==
    LET stripped_line == Strip(line)
    IN  IF stripped_line = <<>> THEN "blank"
        ELSE IF FastReject(g, stripped_line) THEN "fast"
        ELSE IF HasBlock(g) /\ SameLineBlock(g, stripped_line) THEN "same_line"
        ELSE IF HasBlock(g) /\ Contains(stripped_line, StartPattern(g)) /\ ~in_block
             THEN "open"
        ELSE IF HasBlock(g) /\ in_block /\ Contains(stripped_line, EndPattern(g))
             THEN "close"
        ELSE IF AnySingle(g, stripped_line) THEN "single"
        ELSE IF HasBlock(g) /\ in_block THEN "continue"
        ELSE "none"

\* which branch of the loop body a line takes, in the order the code tests
Branch(g, in_block, line) ==
    LET stripped_line == Strip(line)
    IN  IF stripped_line = <<>> THEN "blank"
        ELSE IF FastReject(g, stripped_line) THEN "fast"
        ELSE IF HasBlock(g) /\ SameLineBlock(g, stripped_line) THEN "same_line"
        ELSE IF HasBlock(g) /\ Contains(stripped_line, StartPattern(g)) /\ ~in_block
             THEN "open"
        ELSE IF HasBlock(g) /\ in_block /\ Contains(stripped_line, EndPattern(g))
             THEN "close"
        ELSE IF HasBlock(g) /\ in_block THEN "continue"
        ELSE IF AnySingle(g, stripped_line) THEN "single"
        ELSE "none"

\* a call of _process_comment, recorded in spans
Emit(tok, kind, comment_text, path, n, all_lines, skip) ==
    [ tok EXCEPT
        !.comments = process_comment(comment_text, @, path, n, all_lines, skip),
        !.spans = Append(@, [text |-> comment_text, line |-> n, kind |-> kind]) ]

\* one iteration of the loop over enumerate(lines), tok being the locals
LineStep(g, tok, path, n, all_lines, skip) ==
    LET stripped_line == Strip(all_lines[n + 1])
        b == Branch(g, tok.in_multiline_comment, all_lines[n + 1])
    IN  CASE b = "same_line" ->
               Emit(tok, b, SameLineText(g, stripped_line), path, n, all_lines, skip)
          [] b = "open" ->
               [ tok EXCEPT !.in_multiline_comment = TRUE,
                            !.multiline_content = << Strip(AfterStart(g, stripped_line)) >> ]
          [] b = "close" ->
               LET content == Append(tok.multiline_content, BeforeEnd(g, stripped_line))
                   closed == [ tok EXCEPT !.in_multiline_comment = FALSE,
                                          !.multiline_content = <<>> ]
               IN  Emit(closed, b, Join(content, <<" ">>), path, n, all_lines, skip)
          [] b = "continue" ->
               [ tok EXCEPT !.multiline_content = Append(@, stripped_line) ]
          [] b = "single" ->
               Emit(tok, b, SingleText(g, stripped_line), path, n, all_lines, skip)
          [] OTHER -> tok

\* the locals of scan_file when the loop starts
TokInit ==
    [ in_multiline_comment |-> FALSE, multiline_content |-> <<>>,
      comments |-> <<>>, spans |-> <<>> ]

\* the loop from line n to the end of the file
RECURSIVE ScanLines(_, _, _, _, _, _)
ScanLines(g, tok, path, n, all_lines, skip) ==
    IF n >= Len(all_lines) THEN tok
    ELSE ScanLines(g, LineStep(g, tok, path, n, all_lines, skip),
                   path, n + 1, all_lines, skip)

\* f.read(): the lines with their terminators
Content(all_lines) ==
    Join([ i \in 1..Len(all_lines) |-> all_lines[i] \o Newline ], <<>>)

\* mutant: only the markers that are words are looked for
AnyMarker_words(content) ==
    \E k \in 1..Len(COMMENT_MARKERS) :
        Len(COMMENT_MARKERS[k]) > 1 /\ Contains(content, COMMENT_MARKERS[k])

\* any(marker in content for marker in config.COMMENT_MARKERS)
AnyMarker(content) ==
    \E k \in 1..Len(COMMENT_MARKERS) : Contains(content, COMMENT_MARKERS[k])

\* mutant: an extension that is no key of COMMENT_PATTERNS is read with the
\* entry "default"
scan_file_default_fallback(name, rel, status, all_lines, skip) ==
    LET file_extension == FileExtension(name)
        key == IF file_extension \in PatternKeys THEN file_extension
               ELSE <<"d", "e", "f", "a", "u", "l", "t">>
    IN  IF status = "unreadable"
        THEN [ raised |-> TRUE, comments |-> <<>> ]
        ELSE IF status = "undecodable" \/ ~AnyMarker(Content(all_lines))
        THEN [ raised |-> FALSE, comments |-> <<>> ]
        ELSE [ raised |-> FALSE,
               comments |-> ScanLines(COMMENT_PATTERNS(key), TokInit,
                                      rel, 0, all_lines, skip).comments ]

\* scan_file as one call: whether it raises, and the list it returns; name
\* is the file's name, rel its path relative to the workspace
scan_file(name, rel, status, all_lines, skip) ==
    LET file_extension == FileExtension(name)
    IN  IF file_extension \notin PatternKeys
        THEN [ raised |-> FALSE, comments |-> <<>> ]
        ELSE IF status = "unreadable"
        THEN [ raised |-> TRUE, comments |-> <<>> ]
        ELSE IF status = "undecodable" \/ ~AnyMarker(Content(all_lines))
        THEN [ raised |-> FALSE, comments |-> <<>> ]
        ELSE [ raised |-> FALSE,
               comments |-> ScanLines(COMMENT_PATTERNS(file_extension), TokInit,
                                      rel, 0, all_lines, skip).comments ]

-----------------------------------------------------------------------------
(* CommentScanner.scan_workspace and should_skip_path *)

\* str(path.relative_to(self.workspace_path)), path being its parts
RelPath(path) == Join(path, <<"/">>)

\* path.name
Name(path) == path[Len(path)]

\* a name matched by a pattern "*.ext" of rglob
GlobMatch(name, pattern) ==
    LET tail == Tail(pattern)
    IN  /\ Len(tail) <= Len(name)
        /\ SubSeq(name, Len(name) - Len(tail) + 1, Len(name)) = tail

\* should_skip_path without a filename filter and without a .gitignore: a
\* part named in DEFAULT_EXCLUDES, or a part that starts with a dot
should_skip_path(path) ==
    \/ \E k \in 1..Len(path) : path[k] \in DEFAULT_EXCLUDES
    \/ \E k \in 1..Len(path) : StartsWith(path[k], <<".">>)


-----------------------------------------------------------------------------
(* Inputs *)

SeqsUpTo(S, n) == UNION { [1..k -> S] : k \in 0..n }

\* lines of a JavaScript file
JsLines == {
    <<"/", "*", " ", "!", " ", "a">>,                               \* /* ! a
    <<"b">>,                                                        \* b
    <<" ", "c", " ", "*", "/", " ", "d">>,                          \*  c */ d
    <<"/", "*", "?", "x", "*", "/", "y", "/", "*", "z", "*", "/">>, \* /*?x*/y/*z*/
    <<"/", "/", " ", "T", "O", "D", "O", "a", " ", "!">>,           \* // TODOa !
    <<" ", " ">>,                                                   \* blank
    <<"/", "/", "N", "O", "T", "E", " ", "n">>,                     \* //NOTE n
    <<"x", "/", "/", "!", "/", "*", "q">>,                          \* x//!/*q
    <<"/", "*", " ", "!", " ", "f", " ", "*", "/">> }               \* /* ! f */

\* lines of a Python file
PyLines == {
    <<"\"", "\"", "\"", " ", "!", " ", "a">>,                       \* """ ! a
    <<"b">>,                                                        \* b
    <<"c", " ", "\"", "\"", "\"">>,                                 \* c """
    <<"#", " ", "?", " ", "q">>,                                    \* # ? q
    <<"\"", "\"", "\"", "!", "f", "\"", "\"", "\"">>,               \* """!f"""
    <<"!", "#", "?", "#", "!">> }                                   \* !#?#!

\* lines of the files of other kinds
OtherLines == {
    <<"/", "/", " ", "T", "O", "D", "O", "a", " ", "!">>,           \* // TODOa !
    <<"b">>,                                                        \* b
    <<"/", "*", " ", "!", " ", "f", " ", "*", "/">> }               \* /* ! f */

\* lines of a TypeScript file in which no marker occurs: markers cut in two
TsLines == {
    <<"/", "*", " ", "T", "O">>,                                    \* /* TO
    <<"D", "O", " ", "*", "/">>,                                    \* DO */
    <<"/", "/", " ", "F", "I", "X">>,                               \* // FIX
    <<"M", "E">> }                                                  \* ME

F_JS == <<"a", ".", "j", "s">>
F_TS == <<"a", ".", "t", "s">>
F_PY == <<"a", ".", "P", "y">>
F_JSON == <<"a", ".", "j", "s", "o", "n">>
F_DEFAULT == <<"a", ".", "d", "e", "f", "a", "u", "l", "t">>

FileNames == { F_JS, F_PY, F_TS, F_JSON, F_DEFAULT }

LinePool(name) ==
    IF name = F_JS THEN JsLines
    ELSE IF name = F_PY THEN PyLines
    ELSE IF name = F_TS THEN TsLines
    ELSE OtherLines

\* the command lines: a --skip list (nargs="+", default DEFAULT_SKIP_MARKERS)
\* and no --include-all, or --include-all alone
ArgsSet ==
    { a \in [ include_all : BOOLEAN, skip : { {M_NOTE}, {M_TODO} } ] :
        a.include_all => a.skip = DEFAULT_SKIP_MARKERS }

-----------------------------------------------------------------------------
(* Specification of one scan: main builds the scanner, scan_file reads one  *)
(* file line by line                                                        *)

Grammar == COMMENT_PATTERNS(FileExtension(file_path))

Tok == [ in_multiline_comment |-> in_multiline_comment,
         multiline_content |-> multiline_content,
         comments |-> comments, spans |-> spans ]

ctxVars == << comment_line_idx, context >>
wsVars == << workspace, pattern_idx, pending, all_comments, errors, scanned,
            output >>
fileVars == << file_path, file_status, lines >>
tokVars == << line_num, in_multiline_comment, multiline_content, comments, spans >>

\* nothing displayed, nothing exported
NoOutput == [ table |-> <<>>, pdf |-> <<>>, xlsx |-> <<>> ]

Idle ==
    /\ comment_line_idx = 0 /\ context = <<>>
    /\ workspace = {} /\ pattern_idx = 0 /\ pending = {}
    /\ all_comments = <<>> /\ errors = <<>> /\ scanned = <<>>
    /\ output = NoOutput

Init ==
    /\ pc = "main"
    /\ args \in ArgsSet
    /\ skip_markers = {}
    /\ file_path \in FileNames
    /\ file_status \in {"ok", "undecodable", "unreadable"}
    /\ lines \in SeqsUpTo(LinePool(file_path), MaxLines)
    /\ file_status # "ok" => lines = <<>>
    /\ line_num = 0
    /\ in_multiline_comment = FALSE
    /\ multiline_content = <<>>
    /\ comments = <<>>
    /\ spans = <<>>
    /\ Idle

\* main: scanner = CommentScanner(args.workspace, skip_markers, ...)
Construct ==
    /\ pc = "main"
    /\ skip_markers' = InitSkipMarkers(SuppliedSkip(args))
    /\ pc' = "scan_file"
    /\ UNCHANGED << args, fileVars, tokVars, ctxVars, wsVars >>

\* scan_file: comments = [], and the extension is no key of COMMENT_PATTERNS
Unsupported ==
    /\ pc = "scan_file"
    /\ FileExtension(file_path) \notin PatternKeys
    /\ pc' = "returned"
    /\ comments' = <<>>
    /\ spans' = <<>>
    /\ UNCHANGED << args, skip_markers, fileVars, ctxVars, wsVars >>
    /\ UNCHANGED << line_num, in_multiline_comment, multiline_content >>

\* scan_file: open() raises OSError, which scan_file does not catch
OpenFails ==
    /\ pc = "scan_file"
    /\ FileExtension(file_path) \in PatternKeys
    /\ file_status = "unreadable"
    /\ pc' = "raised"
    /\ comments' = <<>>
    /\ spans' = <<>>
    /\ UNCHANGED << args, skip_markers, fileVars, ctxVars, wsVars >>
    /\ UNCHANGED << line_num, in_multiline_comment, multiline_content >>

\* a scan_file that lets the UnicodeDecodeError of f.read() escape
Undecodable_raises ==
    /\ pc = "scan_file"
    /\ FileExtension(file_path) \in PatternKeys
    /\ file_status = "undecodable"
    /\ pc' = "raised"
    /\ comments' = <<>>
    /\ spans' = <<>>
    /\ UNCHANGED << args, skip_markers, fileVars, ctxVars, wsVars >>
    /\ UNCHANGED << line_num, in_multiline_comment, multiline_content >>

\* scan_file: f.read() raises UnicodeDecodeError, which scan_file catches
Undecodable ==
    /\ pc = "scan_file"
    /\ FileExtension(file_path) \in PatternKeys
    /\ file_status = "undecodable"
    /\ pc' = "returned"
    /\ comments' = <<>>
    /\ spans' = <<>>
    /\ UNCHANGED << args, skip_markers, fileVars, ctxVars, wsVars >>
    /\ UNCHANGED << line_num, in_multiline_comment, multiline_content >>

\* scan_file: no marker occurs in the content
NoMarker ==
    /\ pc = "scan_file"
    /\ FileExtension(file_path) \in PatternKeys
    /\ file_status = "ok"
    /\ ~AnyMarker(Content(lines))
    /\ pc' = "returned"
    /\ comments' = <<>>
    /\ spans' = <<>>
    /\ UNCHANGED << args, skip_markers, fileVars, ctxVars, wsVars >>
    /\ UNCHANGED << line_num, in_multiline_comment, multiline_content >>

\* a scan_file whose block state outlives the call (kept on the scanner)
StartLoop_keeps_block ==
    /\ pc = "scan_file"
    /\ FileExtension(file_path) \in PatternKeys
    /\ file_status = "ok"
    /\ AnyMarker(Content(lines))
    /\ pc' = "loop"
    /\ line_num' = 0
    /\ comments' = TokInit.comments
    /\ spans' = TokInit.spans
    /\ UNCHANGED << in_multiline_comment, multiline_content >>
    /\ UNCHANGED << args, skip_markers, fileVars, ctxVars, wsVars >>

\* scan_file: lines = f.readlines(), the locals of the loop are set
StartLoop ==
    /\ pc = "scan_file"
    /\ FileExtension(file_path) \in PatternKeys
    /\ file_status = "ok"
    /\ AnyMarker(Content(lines))
    /\ pc' = "loop"
    /\ line_num' = 0
    /\ in_multiline_comment' = TokInit.in_multiline_comment
    /\ multiline_content' = TokInit.multiline_content
    /\ comments' = TokInit.comments
    /\ spans' = TokInit.spans
    /\ UNCHANGED << args, skip_markers, fileVars, ctxVars, wsVars >>

\* the branch the current line takes
CurrentBranch == Branch(Grammar, in_multiline_comment, lines[line_num + 1])

\* one iteration of the loop over enumerate(lines)
Iterate ==
    /\ LET tok == LineStep(Grammar, Tok, file_path, line_num, lines, skip_markers)
       IN  /\ in_multiline_comment' = tok.in_multiline_comment
           /\ multiline_content' = tok.multiline_content
           /\ comments' = tok.comments
           /\ spans' = tok.spans
    /\ line_num' = line_num + 1
    /\ UNCHANGED << pc, args, skip_markers, fileVars, ctxVars, wsVars >>

InLoop == pc = "loop" /\ line_num < Len(lines)

\* an empty line: continue
SkipBlank == InLoop /\ CurrentBranch = "blank" /\ Iterate

\* the fast path: continue
SkipFast == InLoop /\ CurrentBranch = "fast" /\ Iterate

\* start and end delimiter on the line
SameLine == InLoop /\ CurrentBranch = "same_line" /\ Iterate

\* a start delimiter outside a block
OpenBlock == InLoop /\ CurrentBranch = "open" /\ Iterate

\* an end delimiter inside a block
CloseBlock == InLoop /\ CurrentBranch = "close" /\ Iterate

\* any other line inside a block
ContinueBlock == InLoop /\ CurrentBranch = "continue" /\ Iterate

\* a single-line prefix
SingleLine == InLoop /\ CurrentBranch = "single" /\ Iterate

\* no prefix matched: the loop over single_patterns ends without a call
NoComment == InLoop /\ CurrentBranch = "none" /\ Iterate

\* scan_file: return comments
Return ==
    /\ pc = "loop"
    /\ line_num = Len(lines)
    /\ pc' = "returned"
    /\ UNCHANGED << args, skip_markers, fileVars, tokVars, ctxVars, wsVars >>

Next ==
    \/ Construct
    \/ Unsupported
    \/ OpenFails
    \/ Undecodable
    \/ NoMarker
    \/ StartLoop
    \/ SkipBlank
    \/ SkipFast
    \/ SameLine
    \/ OpenBlock
    \/ CloseBlock
    \/ ContinueBlock
    \/ SingleLine
    \/ NoComment
    \/ Return

Spec == Init /\ [][Next]_vars


-----------------------------------------------------------------------------
(* Properties of the tokenizer, checked under Spec *)

StrippedLine(n) == Strip(lines[n + 1])

\* line n holds the end delimiter
HasEnd(n) == Contains(StrippedLine(n), EndPattern(Grammar))

\* line n holds a start delimiter and no end delimiter after it
StartNoClose(n) ==
    /\ Contains(StrippedLine(n), StartPattern(Grammar))
    /\ ~Contains(AfterStart(Grammar, StrippedLine(n)), EndPattern(Grammar))

\* the line of the last block closed before line k, or -1
PrevClose(k) ==
    LET closed == { spans[x].line : x \in { y \in 1..Len(spans) :
                       spans[y].kind = "close" /\ spans[y].line < k } }
    IN  IF closed = {} THEN -1 ELSE CHOOSE c \in closed : \A d \in closed : d <= c

\* the line that opened the block closed on line k: the first line after the
\* previous close that holds a start delimiter without a same-line close
OpenLine(k) ==
    LET cand == { j \in (PrevClose(k) + 1)..(k - 1) : StartNoClose(j) }
    IN  CHOOSE j \in cand : \A m \in cand : j <= m

\* the non-blank lines with index in lo..hi, stripped, in line order
RECURSIVE FragmentsOf(_, _)
FragmentsOf(lo, hi) ==
    IF lo > hi THEN <<>>
    ELSE (IF StrippedLine(lo) # <<>> THEN << StrippedLine(lo) >> ELSE <<>>)
         \o FragmentsOf(lo + 1, hi)

\* the text C1 states for the block opened on line i and closed on line k
JoinedBlockText(i, k) ==
    Join(<< Strip(AfterStart(Grammar, StrippedLine(i))) >>
         \o FragmentsOf(i + 1, k - 1)
         \o << Strip(Slice(StrippedLine(k), 0,
                           Find(StrippedLine(k), EndPattern(Grammar)))) >>,
         <<" ">>)

\* C1: a block comment opened on line i and closed on a later line k (no end
\* delimiter in between) yields exactly one comment, whose text is the
\* single-space join of the text after the start delimiter on line i, every
\* non-blank line between them, and the text before the end delimiter on
\* line k.
C1_BlockTextIsJoinOfAllLines ==
    \A x \in 1..Len(spans) :
        spans[x].kind = "close" =>
            LET k == spans[x].line
                i == OpenLine(k)
            IN  (\A j \in (i + 1)..(k - 1) : ~HasEnd(j)) =>
                    /\ spans[x].text = JoinedBlockText(i, k)
                    /\ Cardinality({ y \in 1..Len(spans) : spans[y].line = k }) = 1

\* what lies between the first start delimiter of a line and the end
\* delimiter that closes it, the first one after that start
BetweenDelimiters(g, s) ==
    LET from == Find(s, StartPattern(g)) + Len(StartPattern(g))
        rest == SliceFrom(s, from)
    IN  Strip(Slice(rest, 0, Find(rest, EndPattern(g))))

\* C2: no emitted comment text holds text from outside the delimiters: a
\* same-line block's text is what lies between the start delimiter and the
\* end delimiter closing it, a multi-line block's text begins with what
\* follows its start delimiter and ends with what precedes its end
\* delimiter, a single-line comment's text is what follows the prefix.
C2_TextInsideDelimiters ==
    \A x \in 1..Len(spans) :
        LET s == spans[x]
            line == StrippedLine(s.line)
        IN  /\ s.kind = "same_line" => s.text = BetweenDelimiters(Grammar, line)
            /\ s.kind = "single" =>
                   \E k \in 1..Len(Grammar.single) :
                       /\ Contains(line, Grammar.single[k])
                       /\ s.text = Strip(SliceFrom(line,
                              Find(line, Grammar.single[k]) + Len(Grammar.single[k])))
            /\ s.kind = "close" =>
                   LET last == Strip(Slice(line, 0, Find(line, EndPattern(Grammar))))
                   IN  /\ Len(last) <= Len(s.text)
                       /\ SubSeq(s.text, Len(s.text) - Len(last) + 1, Len(s.text)) = last

\* C3: the skip-set the scanner uses is the one main supplied, so with
\* --include-all (an empty set supplied) no marker is skipped.
C3_SkipSetIsSupplied ==
    pc # "main" => skip_markers = SuppliedSkip(args)


\* marker k qualifies for a comment text: the text starts with it and it is
\* not skipped
Qualifies(k, text) ==
    /\ Len(COMMENT_MARKERS[k]) <= Len(text)
    /\ \A c \in 1..Len(COMMENT_MARKERS[k]) : text[c] = COMMENT_MARKERS[k][c]
    /\ COMMENT_MARKERS[k] \notin skip_markers

IsAnnotation(s) == \E k \in 1..Len(COMMENT_MARKERS) : Qualifies(k, s.text)

\* the first marker in registry order that qualifies
FirstQualifying(text) ==
    COMMENT_MARKERS[CHOOSE k \in 1..Len(COMMENT_MARKERS) :
        Qualifies(k, text) /\ \A j \in 1..(k - 1) : ~Qualifies(j, text)]

\* C4: every comment text is attributed to at most one marker, the first in
\* registry order that the text starts with (no word boundary needed) and
\* that is not skipped; the body is the rest of the text, trimmed; a text
\* no marker qualifies for appends nothing.
C4_FirstQualifyingMarker ==
    LET hits == SelectSeq(spans, IsAnnotation)
    IN  /\ Len(comments) = Len(hits)
        /\ \A j \in 1..Len(hits) :
               LET m == FirstQualifying(hits[j].text)
               IN  /\ comments[j].type = m
                   /\ comments[j].text = Strip(SubSeq(hits[j].text, Len(m) + 1,
                                                      Len(hits[j].text)))
                   /\ comments[j].line = hits[j].line + 1

\* the text "TODOa !" was attributed to TODO with body "a !", and a text
\* starting with a skipped marker appended nothing
C4_Witness ==
    /\ pc = "returned"
    /\ \E j \in 1..Len(comments) :
           comments[j].type = M_TODO /\ comments[j].text = <<"a", " ", "!">>
    /\ \E x \in 1..Len(spans) : ~IsAnnotation(spans[x])

\* C5: no annotation carries a marker of the active skip-set.
C5_NoSkippedMarker ==
    \A j \in 1..Len(comments) : comments[j].type \notin skip_markers

\* a comment that starts with a skipped marker was processed
C5_Witness ==
    /\ pc = "returned"
    /\ \E x \in 1..Len(spans) :
           \E m \in skip_markers : StartsWith(spans[x].text, m)

\* the line about to be processed holds a start delimiter and an end
\* delimiter after it, outside a block
SameLineCase ==
    /\ pc = "loop"
    /\ line_num < Len(lines)
    /\ HasBlock(Grammar)
    /\ ~in_multiline_comment
    /\ LET s == StrippedLine(line_num)
           st == StartPattern(Grammar)
           en == EndPattern(Grammar)
       IN  \E p \in Occurrences(s, st) :
               /\ \A q \in Occurrences(s, st) : p <= q
               /\ \E e \in Occurrences(s, en) : e >= p + Len(st)

\* C6: a line that holds the start delimiter and the end delimiter after it,
\* read outside a block, emits exactly one comment, attributed to that line,
\* and leaves the tokenizer outside a block.
C6_SameLineBlockIsComplete ==
    [][ SameLineCase =>
            /\ Len(spans') = Len(spans) + 1
            /\ SubSeq(spans', 1, Len(spans)) = spans
            /\ spans'[Len(spans')].line = line_num
            /\ ~in_multiline_comment'
            /\ multiline_content' = multiline_content
            /\ line_num' = line_num + 1 ]_vars

\* the line "/* ! f */" gave one annotation "!" with body "f" on its line
C6_Witness ==
    /\ pc = "loop"
    /\ line_num >= 1
    /\ lines[line_num] = <<"/", "*", " ", "!", " ", "f", " ", "*", "/">>
    /\ ~in_multiline_comment
    /\ spans # <<>> /\ spans[Len(spans)].line = line_num - 1
    /\ spans[Len(spans)].text = <<"!", " ", "f">>
    /\ comments # <<>>
    /\ comments[Len(comments)].type = M_IMPORTANT
    /\ comments[Len(comments)].text = <<"f">>
    /\ comments[Len(comments)].line = line_num

\* the tokenizer is inside a block and no line still to be read holds the
\* end delimiter
Dangling ==
    /\ pc = "loop"
    /\ in_multiline_comment
    /\ \A n \in line_num..(Len(lines) - 1) : ~HasEnd(n)

\* C7: a block comment that no later line closes is dropped: the line that
\* opens it and the lines after it add no annotation, and the scan returns.
C7_UnterminatedBlockDropped ==
    [][ /\ (pc = "loop" /\ ~in_multiline_comment /\ in_multiline_comment')
            => comments' = comments
        /\ Dangling => /\ comments' = comments
                       /\ in_multiline_comment'
                       /\ pc' \in {"loop", "returned"} ]_vars

\* the scan returned inside a block whose later line "// TODOa !" gave nothing
C7_Witness ==
    /\ pc = "returned"
    /\ in_multiline_comment
    /\ Len(lines) >= 2
    /\ lines[Len(lines)] = <<"/", "/", " ", "T", "O", "D", "O", "a", " ", "!">>
    /\ M_TODO \notin skip_markers
    /\ comments = <<>>

C8_WitnessLowered ==
    /\ pc = "returned"
    /\ file_path = F_PY
    /\ lines = << <<"#", " ", "?", " ", "q">> >>
    /\ Len(comments) = 1 /\ comments[1].type = M_QUESTION


-----------------------------------------------------------------------------
(* Specification of get_context_lines alone: any line array, any target     *)

CtxLines == { <<>>, <<" ", " ">>, <<"a">>, <<" ", "b", " ">> }

InitCtx ==
    /\ pc = "ctx"
    /\ lines \in SeqsUpTo(CtxLines, MaxCtxLines)
    /\ lines # <<>>
    /\ comment_line_idx \in 0..(Len(lines) - 1)
    /\ context = <<>>
    /\ args = [ include_all |-> FALSE, skip |-> DEFAULT_SKIP_MARKERS ]
    /\ skip_markers = InitSkipMarkers(SuppliedSkip(args))
    /\ file_path = F_JS
    /\ file_status = "ok"
    /\ line_num = 0
    /\ in_multiline_comment = FALSE
    /\ multiline_content = <<>>
    /\ comments = <<>>
    /\ spans = <<>>
    /\ workspace = {} /\ pattern_idx = 0 /\ pending = {}
    /\ all_comments = <<>> /\ errors = <<>> /\ scanned = <<>>
    /\ output = NoOutput

\* context = self.get_context_lines(lines, line_num)
GetContext ==
    /\ pc = "ctx"
    /\ context' = get_context_lines(lines, comment_line_idx)
    /\ pc' = "ctx_done"
    /\ UNCHANGED << args, skip_markers, fileVars, tokVars, comment_line_idx, wsVars >>

NextCtx == GetContext

SpecCtx == InitCtx /\ [][NextCtx]_vars

\* the indices lo..hi in order
IndexSeq(lo, hi) == [ k \in 1..(IF hi >= lo THEN hi - lo + 1 ELSE 0) |-> lo + k - 1 ]

NonBlankAt(j) == \E c \in 1..Len(lines[j + 1]) : lines[j + 1][c] \notin Whitespace

\* the entries C9 states: the non-blank lines of the window before the
\* target, the target behind the arrow, the non-blank lines after it
WindowEntries(t) ==
    LET before == SelectSeq(IndexSeq(Max(0, t - CONTEXT_LINES), t - 1), NonBlankAt)
        after == SelectSeq(IndexSeq(t + 1, Min(Len(lines) - 1, t + CONTEXT_LINES)),
                           NonBlankAt)
    IN  [ k \in 1..Len(before) |-> <<" ", " ">> \o Strip(lines[before[k] + 1]) ]
        \o << <<"->", " ">> \o Strip(lines[t + 1]) >>
        \o [ k \in 1..Len(after) |-> <<" ", " ">> \o Strip(lines[after[k] + 1]) ]

\* C9: get_context_lines returns, in index order, the trimmed non-blank
\* lines with index in [max(0,t-N), t-1], the target line behind the arrow,
\* and the trimmed non-blank lines with index in [t+1, min(len-1,t+N)];
\* blank lines are left out and no line outside [t-N, t+N] appears.
C9_ContextWindow ==
    pc = "ctx_done" =>
        context = Join(WindowEntries(comment_line_idx), <<"\n">>)

\* the line before the target is blank and a non-blank line lies just
\* outside the window: the result holds the line two before the target, the
\* target and its two successors, the window was not widened
C9_Witness ==
    /\ pc = "ctx_done"
    /\ comment_line_idx = 3
    /\ lines = << <<"a">>, <<" ", "b", " ">>, <<" ", " ">>, <<"a">>,
                  <<" ", "b", " ">>, <<"a">> >>
    /\ context = << " ", " ", "b", "\n", "->", " ", "a", "\n",
                    " ", " ", "b", "\n", " ", " ", "a" >>

-----------------------------------------------------------------------------
(* Specification of scan_workspace over a directory tree                    *)

L_TODO == <<"/", "/", " ", "T", "O", "D", "O", "a", " ", "!">>

\* the entries a workspace is drawn from
WsFiles == {
    [ path |-> << <<"b", ".", "j", "s">> >>, is_file |-> TRUE, status |-> "ok",
      lines |-> << L_TODO >> ],
    [ path |-> << <<"e", ".", "j", "s">> >>, is_file |-> TRUE, status |-> "unreadable",
      lines |-> <<>> ],
    [ path |-> << <<"d", ".", "p", "y">> >>, is_file |-> TRUE, status |-> "ok",
      lines |-> << <<"#", " ", "?", " ", "q">> >> ],
    [ path |-> << <<"c", ".", "s", "c", "s", "s">> >>, is_file |-> TRUE, status |-> "ok",
      lines |-> << L_TODO >> ],
    [ path |-> << <<".", "h", ".", "j", "s">> >>, is_file |-> TRUE, status |-> "ok",
      lines |-> << L_TODO >> ],
    [ path |-> << <<"b", "u", "i", "l", "d">>, <<"x", ".", "j", "s">> >>,
      is_file |-> TRUE, status |-> "ok", lines |-> << L_TODO >> ],
    [ path |-> << <<"k", ".", "c">> >>, is_file |-> TRUE, status |-> "ok",
      lines |-> << <<"/", "*", " ", "!", " ", "a">>, <<"b">>,
                   <<" ", "c", " ", "*", "/", " ", "d">> >> ],
    [ path |-> << <<"g", ".", "t", "s">> >>, is_file |-> TRUE, status |-> "undecodable",
      lines |-> <<>> ],
    [ path |-> << <<"m", ".", "j", "s">> >>, is_file |-> FALSE, status |-> "ok",
      lines |-> <<>> ] }

InitWs ==
    /\ pc = "scan_workspace"
    /\ args \in ArgsSet
    /\ skip_markers = InitSkipMarkers(SuppliedSkip(args))
    /\ workspace \in { w \in SUBSET WsFiles : Cardinality(w) <= MaxFiles }
    /\ pattern_idx = 0
    /\ pending = {}
    /\ all_comments = <<>>
    /\ errors = <<>>
    /\ scanned = <<>>
    /\ output = NoOutput
    /\ file_path = <<>>
    /\ file_status = "ok"
    /\ lines = <<>>
    /\ line_num = 0
    /\ in_multiline_comment = FALSE
    /\ multiline_content = <<>>
    /\ comments = <<>>
    /\ spans = <<>>
    /\ comment_line_idx = 0
    /\ context = <<>>

wsFixed == << args, skip_markers, fileVars, tokVars, ctxVars, workspace, output >>

\* for pattern in config.FILE_PATTERNS: the next rglob starts
NextPattern ==
    /\ pc = "scan_workspace"
    /\ pending = {}
    /\ pattern_idx < Len(FILE_PATTERNS)
    /\ pattern_idx' = pattern_idx + 1
    /\ pending' = { f \in workspace :
                      GlobMatch(Name(f.path), FILE_PATTERNS[pattern_idx + 1]) }
    /\ UNCHANGED << pc, all_comments, errors, scanned, wsFixed >>

\* rglob yields a path that is no file or that should_skip_path rejects
SkipPath ==
    /\ pc = "scan_workspace"
    /\ \E f \in pending :
           /\ ~f.is_file \/ should_skip_path(f.path)
           /\ pending' = pending \ {f}
    /\ UNCHANGED << pc, pattern_idx, all_comments, errors, scanned, wsFixed >>

\* rglob yields a candidate and scan_file returns its list
ScanFileOk ==
    /\ pc = "scan_workspace"
    /\ \E f \in pending :
           LET r == scan_file(Name(f.path), RelPath(f.path), f.status, f.lines,
                              skip_markers)
           IN  /\ f.is_file /\ ~should_skip_path(f.path)
               /\ ~r.raised
               /\ all_comments' = all_comments \o r.comments
               /\ scanned' = Append(scanned, f.path)
               /\ pending' = pending \ {f}
    /\ UNCHANGED << pc, pattern_idx, errors, wsFixed >>

\* mutant: the exception of scan_file is caught around the loops only, the
\* scan of the workspace ends there
ScanFileError_abort ==
    /\ pc = "scan_workspace"
    /\ \E f \in pending :
           LET r == scan_file(Name(f.path), RelPath(f.path), f.status, f.lines,
                              skip_markers)
           IN  /\ f.is_file /\ ~should_skip_path(f.path)
               /\ r.raised
               /\ errors' = Append(errors, f.path)
               /\ scanned' = Append(scanned, f.path)
               /\ pending' = {}
               /\ pattern_idx' = Len(FILE_PATTERNS)
    /\ UNCHANGED << pc, all_comments, wsFixed >>

\* rglob yields a candidate and scan_file raises: "Error scanning" is printed
ScanFileError ==
    /\ pc = "scan_workspace"
    /\ \E f \in pending :
           LET r == scan_file(Name(f.path), RelPath(f.path), f.status, f.lines,
                              skip_markers)
           IN  /\ f.is_file /\ ~should_skip_path(f.path)
               /\ r.raised
               /\ errors' = Append(errors, f.path)
               /\ scanned' = Append(scanned, f.path)
               /\ pending' = pending \ {f}
    /\ UNCHANGED << pc, pattern_idx, all_comments, wsFixed >>

\* return all_comments
WsReturn ==
    /\ pc = "scan_workspace"
    /\ pending = {}
    /\ pattern_idx = Len(FILE_PATTERNS)
    /\ pc' = "ws_returned"
    /\ UNCHANGED << pattern_idx, pending, all_comments, errors, scanned, wsFixed >>

-----------------------------------------------------------------------------
(* main after the scan: display_comments, export_to_pdf, export_to_excel *)

\* config.COMMENT_MARKERS[comment["type"]]
MarkerLabel(marker) ==
    CASE marker = M_IMPORTANT -> "Important"
      [] marker = M_TODO -> "To Do"
      [] marker = M_QUESTION -> "Question"
      [] marker = M_REVIEW -> "Needs Review"
      [] marker = M_FIXME -> "Fix Required"
      [] marker = M_NOTE -> "Note"

\* the code point of a character of a marker
Ord(c) ==
    CASE c = "!" -> 33
      [] c = "?" -> 63
      [] OTHER -> 64 + (CHOOSE k \in 1..Len(UpperCase) : UpperCase[k] = c)

\* s < t for two str
RECURSIVE StrLess(_, _)
StrLess(s, t) ==
    IF t = <<>> THEN FALSE
    ELSE IF s = <<>> THEN TRUE
    ELSE IF s[1] = t[1] THEN StrLess(Tail(s), Tail(t))
    ELSE Ord(s[1]) < Ord(t[1])

\* a placed behind the last element of a sorted list whose type is not
\* greater than its own
RECURSIVE InsertByType(_, _)
InsertByType(sorted, a) ==
    IF sorted = <<>> THEN << a >>
    ELSE IF StrLess(a.type, sorted[Len(sorted)].type)
         THEN Append(InsertByType(SubSeq(sorted, 1, Len(sorted) - 1), a),
                     sorted[Len(sorted)])
         ELSE Append(sorted, a)

\* sorted(comments, key=lambda x: x["type"]), a stable sort
RECURSIVE SortedByType(_)
SortedByType(cmts) ==
    IF cmts = <<>> THEN <<>>
    ELSE InsertByType(SortedByType(SubSeq(cmts, 1, Len(cmts) - 1)), cmts[Len(cmts)])

Digits == << "0", "1", "2", "3", "4", "5", "6", "7", "8", "9" >>

\* str(n) for n >= 0
RECURSIVE Str(_)
Str(n) ==
    IF n < 10 THEN << Digits[n + 1] >>
    ELSE Str(n \div 10) \o << Digits[(n % 10) + 1] >>

\* s.encode("ascii", "replace").decode("ascii")
RECURSIVE Ascii(_)
Ascii(s) ==
    IF s = <<>> THEN <<>>
    ELSE (IF Head(s) = Arrow[1] THEN <<"?">> ELSE << Head(s) >>) \o Ascii(Tail(s))

\* the context of a row of the PDF: the arrow becomes ">", a line break " | "
RECURSIVE PdfContext(_)
PdfContext(s) ==
    IF s = <<>> THEN <<>>
    ELSE (IF Head(s) = Arrow[1] THEN <<">">>
          ELSE IF << Head(s) >> = Newline THEN <<" ", "|", " ">>
          ELSE << Head(s) >>) \o PdfContext(Tail(s))

\* display_comments: the rows added to the table, show_context being True
display_comments(cmts) ==
    LET ordered == SortedByType(cmts)
    IN  [ k \in 1..Len(ordered) |->
            << MarkerLabel(ordered[k].type), ordered[k].text, ordered[k].context,
               ordered[k].file, Str(ordered[k].line) >> ]

\* export_to_pdf: the rows written after the headers
export_to_pdf(cmts) ==
    LET ordered == SortedByType(cmts)
    IN  [ k \in 1..Len(ordered) |->
            << MarkerLabel(ordered[k].type), Ascii(ordered[k].text),
               Ascii(PdfContext(ordered[k].context)), Ascii(ordered[k].file),
               Str(ordered[k].line) >> ]

\* export_to_excel: the rows of the data frame
export_to_excel(cmts) ==
    [ k \in 1..Len(cmts) |->
        [ Type |-> MarkerLabel(cmts[k].type), Comment |-> cmts[k].text,
          File |-> cmts[k].file, Line |-> cmts[k].line,
          Context |-> cmts[k].context ] ]

outFixed == << args, skip_markers, fileVars, tokVars, ctxVars, workspace,
               pattern_idx, pending, all_comments, errors, scanned >>

\* main: if not comments: "No comments found!", return
NoComments ==
    /\ pc = "ws_returned"
    /\ all_comments = <<>>
    /\ pc' = "done"
    /\ UNCHANGED << output, outFixed >>

\* main: scanner.display_comments(comments)
Display ==
    /\ pc = "ws_returned"
    /\ all_comments # <<>>
    /\ output' = [ output EXCEPT !.table = display_comments(all_comments) ]
    /\ pc' = "displayed"
    /\ UNCHANGED outFixed

\* main: no --export on the command line
NoExport ==
    /\ pc = "displayed"
    /\ pc' = "done"
    /\ UNCHANGED << output, outFixed >>

\* main: --export pdf
ExportPdf ==
    /\ pc = "displayed"
    /\ output' = [ output EXCEPT !.pdf = export_to_pdf(all_comments) ]
    /\ pc' = "done"
    /\ UNCHANGED outFixed

\* main: --export xlsx
ExportExcel ==
    /\ pc = "displayed"
    /\ output' = [ output EXCEPT !.xlsx = export_to_excel(all_comments) ]
    /\ pc' = "done"
    /\ UNCHANGED outFixed

NextWs ==
    \/ NextPattern
    \/ SkipPath
    \/ ScanFileOk
    \/ ScanFileError
    \/ WsReturn
    \/ NoComments
    \/ Display
    \/ NoExport
    \/ ExportPdf
    \/ ExportExcel

SpecWs == InitWs /\ [][NextWs]_vars

Range(seq) == { seq[k] : k \in 1..Len(seq) }

\* a file the traversal hands to scan_file
Candidate(f) ==
    /\ f.is_file
    /\ \E k \in 1..Len(FILE_PATTERNS) : GlobMatch(Name(f.path), FILE_PATTERNS[k])
    /\ \A k \in 1..Len(f.path) :
           f.path[k] \notin DEFAULT_EXCLUDES /\ f.path[k][1] # "."

\* a file whose scan fails with an I/O error
Fails(f) == f.status = "unreadable" /\ FileExtension(Name(f.path)) \in PatternKeys

\* C10: when the scan of one candidate file fails with an I/O error, the
\* failure is reported for that file and the scan goes on: every candidate
\* file is scanned and every annotation of the files that scan successfully
\* is in the returned collection.
C10_FailureIsolated ==
    pc = "ws_returned" =>
        \A f \in workspace :
            Candidate(f) =>
                /\ f.path \in Range(scanned)
                /\ IF Fails(f)
                   THEN f.path \in Range(errors)
                   ELSE Range(scan_file(Name(f.path), RelPath(f.path), f.status,
                                        f.lines, skip_markers).comments)
                            \subseteq Range(all_comments)

\* a failing file was scanned between two files whose annotations were
\* returned
C10_Witness ==
    /\ pc = "ws_returned"
    /\ errors # <<>>
    /\ \E i, j, k \in 1..Len(scanned) :
           /\ i < j /\ j < k
           /\ scanned[j] \in Range(errors)
           /\ \E a, b \in Range(all_comments) :
                  a.file = RelPath(scanned[i]) /\ b.file = RelPath(scanned[k])

-----------------------------------------------------------------------------
(* Failures of reading, checked under Spec *)

\* scan_file has ended, by a return or by an exception that leaves it
Ended == pc \in {"returned", "raised"}

\* C11 (as stated): scan_file never raises for a file that is unreadable or
\* that cannot be decoded as text; in both cases it returns the empty list.
C11_NeverRaises ==
    /\ pc # "raised"
    /\ (pc = "returned" /\ file_status \in {"unreadable", "undecodable"})
          => comments = <<>>

\* C11 (amended): scan_file never raises for a file that cannot be decoded as
\* text, it returns the empty list; for an unreadable file it returns the
\* empty list only when the extension is unsupported (the file is not
\* opened), otherwise the error of open() leaves scan_file.
C11_RaisesOnlyForUnreadable ==
    /\ pc = "raised" =>
          file_status = "unreadable" /\ FileExtension(file_path) \in PatternKeys
    /\ (pc = "returned" /\ file_status = "unreadable") =>
          FileExtension(file_path) \notin PatternKeys
    /\ (pc = "returned" /\ file_status \in {"unreadable", "undecodable"}) =>
          comments = <<>>
    /\ (pc \notin {"main", "scan_file"} /\ ~Ended) => file_status = "ok"

\* an undecodable JavaScript file has been read and scan_file has returned
C11_Witness ==
    /\ pc = "returned"
    /\ file_status = "undecodable"
    /\ file_path = F_JS
    /\ comments = <<>>

-----------------------------------------------------------------------------
(* Specification of repeated scans: one scanner, scan_file called on one    *)
(* file after the other as in the loop of scan_workspace, each call read    *)
(* line by line                                                             *)

MaxScans == 3

\* the files of the tree: path, outcome of reading, lines
SeqFiles == {
    [ path |-> <<"f", ".", "j", "s">>, status |-> "ok",
      lines |-> << <<"/", "/", " ", "T", "O", "D", "O", "a", " ", "!">>,
                   <<" ", "c", " ", "*", "/", " ", "d">> >> ],
    \* ends inside a block that is never closed
    [ path |-> <<"g", ".", "j", "s">>, status |-> "ok",
      lines |-> << <<"/", "*", " ", "!", " ", "a">>, <<"b">> >> ],
    [ path |-> <<"h", ".", "j", "s">>, status |-> "ok",
      lines |-> << <<" ", " ">>,
                   <<"/", "*", " ", "!", " ", "f", " ", "*", "/">>,
                   <<"/", "*", " ", "!", " ", "a">>,
                   <<"x", "/", "/", "!", "/", "*", "q">>,
                   <<" ", "c", " ", "*", "/", " ", "d">>,
                   <<" ", "c", " ", "*", "/", " ", "d">> >> ],
    [ path |-> <<"n", ".", "j", "s">>, status |-> "ok",
      lines |-> << <<"b">> >> ],
    [ path |-> <<"e", ".", "j", "s">>, status |-> "unreadable",
      lines |-> <<>> ],
    [ path |-> <<"d", ".", "j", "s">>, status |-> "undecodable",
      lines |-> <<>> ],
    [ path |-> F_JSON, status |-> "ok",
      lines |-> << <<"/", "/", " ", "T", "O", "D", "O", "a", " ", "!">> >> ] }

InitSeq ==
    /\ pc = "collected"
    /\ args = [ include_all |-> FALSE, skip |-> {M_NOTE} ]
    /\ skip_markers = InitSkipMarkers(SuppliedSkip(args))
    /\ file_path = <<>> /\ file_status = "ok" /\ lines = <<>>
    /\ line_num = 0
    /\ in_multiline_comment = FALSE
    /\ multiline_content = <<>>
    /\ comments = <<>>
    /\ spans = <<>>
    /\ Idle

\* scan_workspace: file_comments = self.scan_file(file_path), next file
CallScan ==
    /\ pc = "collected"
    /\ Len(scanned) < MaxScans
    /\ \E f \in SeqFiles :
          /\ file_path' = f.path
          /\ file_status' = f.status
          /\ lines' = f.lines
          /\ scanned' = Append(scanned, f.path)
    /\ pc' = "scan_file"
    /\ UNCHANGED << args, skip_markers, tokVars, ctxVars >>
    /\ UNCHANGED << workspace, pattern_idx, pending, all_comments, errors, output >>

\* scan_workspace: all_comments.extend(file_comments)
Collect ==
    /\ pc = "returned"
    /\ all_comments' = all_comments \o comments
    /\ pc' = "collected"
    /\ UNCHANGED << args, skip_markers, fileVars, tokVars, ctxVars >>
    /\ UNCHANGED << workspace, pattern_idx, pending, errors, scanned, output >>

\* scan_workspace: except Exception around the scan of one file
Caught ==
    /\ pc = "raised"
    /\ errors' = Append(errors, file_path)
    /\ pc' = "collected"
    /\ UNCHANGED << args, skip_markers, fileVars, tokVars, ctxVars >>
    /\ UNCHANGED << workspace, pattern_idx, pending, all_comments, scanned, output >>

NextSeq ==
    \/ CallScan
    \/ Collect
    \/ Caught
    \/ Unsupported
    \/ OpenFails
    \/ Undecodable
    \/ NoMarker
    \/ StartLoop
    \/ SkipBlank
    \/ SkipFast
    \/ SameLine
    \/ OpenBlock
    \/ CloseBlock
    \/ ContinueBlock
    \/ SingleLine
    \/ NoComment
    \/ Return

SpecSeq == InitSeq /\ [][NextSeq]_vars

\* the number of calls of scan_file whose outcome the caller has taken
Taken == IF pc = "collected" THEN Len(scanned) ELSE Len(scanned) - 1

\* the annotations of the file at path p among those collected so far
CollectedOf(p) == SelectSeq(all_comments, LAMBDA a : a.file = p)

\* the number of scans of the file at path p taken so far
ScansOf(p) == Cardinality({ i \in 1..Taken : scanned[i] = p })

\* s is its first Len(s) \div n elements, n times over
Repeats(s, n) ==
    /\ Len(s) % n = 0
    /\ \A j \in 1..Len(s) : s[j] = s[((j - 1) % (Len(s) \div n)) + 1]

\* C12: scanning the same unchanged file again, with any scans of other
\* files in between (also of a file that ends inside an unterminated block),
\* yields the same annotation sequence every time; a scan starts outside any
\* block whatever the scan before it left behind.
C12_ScanIsIdempotent ==
    /\ \A f \in SeqFiles :
          ScansOf(f.path) > 0 => Repeats(CollectedOf(f.path), ScansOf(f.path))
    /\ (pc = "loop" /\ line_num = 0) =>
          (in_multiline_comment = FALSE /\ multiline_content = <<>>)

\* f.js was scanned, then g.js, which ends inside an open block, then f.js
\* again: both scans of f.js gave the same one annotation
C12_Witness ==
    /\ pc = "collected"
    /\ scanned = << <<"f", ".", "j", "s">>, <<"g", ".", "j", "s">>,
                    <<"f", ".", "j", "s">> >>
    /\ Len(all_comments) = 2
    /\ all_comments[1] = all_comments[2]
    /\ all_comments[1].type = M_TODO
    /\ all_comments[1].line = 1

-----------------------------------------------------------------------------
(* Line numbers, checked under Spec *)

\* C13: in the annotation sequence of one file the line numbers are 1-based,
\* lie within 1..(number of lines of the file) and are strictly increasing,
\* so a source line never yields more than one annotation, also when its
\* single-line prefix occurs several times in it.
C13_LineNumbersIncrease ==
    \A j \in 1..Len(comments) :
        /\ comments[j].line \in 1..Len(lines)
        /\ comments[j].line <= line_num
        /\ \A k \in 1..Len(comments) :
              j < k => comments[j].line < comments[k].line

\* a Python file of two comment lines, the first with `#` twice: one
\* annotation for each line, numbered 1 and 2
C13_Witness ==
    /\ pc = "returned"
    /\ file_path = F_PY
    /\ lines = << <<"!", "#", "?", "#", "!">>, <<"#", " ", "?", " ", "q">> >>
    /\ Len(comments) = 2
    /\ comments[1].line = 1 /\ comments[1].text = <<"#", "!">>
    /\ comments[2].line = 2

-----------------------------------------------------------------------------
(* Lines read inside an open block, checked under Spec *)

\* the next line is read inside an open block and holds the end delimiter
EndInsideBlock ==
    /\ InLoop
    /\ HasBlock(Grammar)
    /\ in_multiline_comment
    /\ HasEnd(line_num)

\* C18: whenever the tokenizer is inside an open block and reads a line that
\* holds the end delimiter, it leaves block state on that line and emits the
\* accumulated block as one comment, also when a start delimiter precedes the
\* end delimiter on that line; the same-line rule is applied only outside a
\* block.
C18_EndDelimiterClosesBlock ==
    [][ /\ EndInsideBlock =>
              /\ ~in_multiline_comment'
              /\ Len(spans') = Len(spans) + 1
              /\ spans'[Len(spans')].text =
                     Join(Append(multiline_content,
                                 BeforeEnd(Grammar, StrippedLine(line_num))),
                          <<" ">>)
        /\ (InLoop /\ in_multiline_comment) => CurrentBranch # "same_line" ]_vars

\* C14: a multi-line block comment is emitted only when it closes: no comment
\* is emitted at the line that opens the block or at any line strictly
\* between the opening and the closing line, and the one comment of the block
\* carries the 1-based number of the closing line, which is also the target
\* line of its context window.
C14_BlockEmittedAtClose ==
    \A x \in 1..Len(spans) :
        spans[x].kind = "close" =>
            LET k == spans[x].line
                i == OpenLine(k)
            IN  /\ \A y \in 1..Len(spans) : spans[y].line \notin i..(k - 1)
                /\ Cardinality({ y \in 1..Len(spans) : spans[y].line = k }) = 1
                /\ IsAnnotation(spans[x]) =>
                       \E j \in 1..Len(comments) :
                           /\ comments[j].line = k + 1
                           /\ comments[j].context = get_context_lines(lines, k)

-----------------------------------------------------------------------------
(* Order of the output, checked under SpecWs *)

\* the marker a label of the table stands for
TypeOfLabel(label) == CHOOSE m \in MarkerSet : MarkerLabel(m) = label

\* no marker type is followed by a smaller one
TypesSorted(types) ==
    \A j, k \in 1..Len(types) : j < k => ~StrLess(types[k], types[j])

\* C15: every consumer (console display, PDF export, spreadsheet export)
\* outputs the annotations sorted by marker type rather than in discovery
\* order, which makes the output of each independent of the order in which
\* the files were scanned.
C15_OutputSortedByType ==
    /\ TypesSorted([ k \in 1..Len(output.table) |-> TypeOfLabel(output.table[k][1]) ])
    /\ TypesSorted([ k \in 1..Len(output.pdf) |-> TypeOfLabel(output.pdf[k][1]) ])
    /\ TypesSorted([ k \in 1..Len(output.xlsx) |-> TypeOfLabel(output.xlsx[k].Type) ])

-----------------------------------------------------------------------------
(* The two fast paths, checked under Spec *)

\* one iteration of the loop with the fast path (src/main.py:155-165) taken
\* out: a line without prefix and delimiter is appended inside a block and
\* matches nothing outside
StepWithoutFastReject(g, tok, path, n, all_lines, skip) ==
    IF Branch(g, tok.in_multiline_comment, all_lines[n + 1]) # "fast"
    THEN LineStep(g, tok, path, n, all_lines, skip)
    ELSE IF HasBlock(g) /\ tok.in_multiline_comment
         THEN [ tok EXCEPT !.multiline_content = Append(@, Strip(all_lines[n + 1])) ]
         ELSE tok

RECURSIVE ScanWithoutFastReject(_, _, _, _, _, _)
ScanWithoutFastReject(g, tok, path, n, all_lines, skip) ==
    IF n >= Len(all_lines) THEN tok
    ELSE ScanWithoutFastReject(g, StepWithoutFastReject(g, tok, path, n, all_lines, skip),
                               path, n + 1, all_lines, skip)

\* C16: the per-line fast-reject is a pure optimization: it skips a line only
\* when the tokenizer is not inside an open block, and the tokenizer with
\* it emits exactly the comment sequence the tokenizer without it emits.
C16_FastRejectIsPure ==
    /\ (InLoop /\ CurrentBranch = "fast") => ~in_multiline_comment
    /\ (pc = "loop" /\ line_num = Len(lines)) =>
          LET ref == ScanWithoutFastReject(Grammar, TokInit, file_path, 0, lines,
                                           skip_markers)
          IN  spans = ref.spans /\ comments = ref.comments

\* scan_file returned because no marker occurs in the content of the file
EarlyReturn ==
    /\ pc = "returned"
    /\ file_status = "ok"
    /\ FileExtension(file_path) \in PatternKeys
    /\ ~AnyMarker(Content(lines))

\* C17: the file-level fast path is a pure optimization: whenever scan_file
\* returns early because no marker occurs in the raw content, the pass over
\* the lines would have produced no annotation either, also for comments
\* assembled from several lines by joining them with spaces.
C17_FileFastPathIsPure ==
    EarlyReturn =>
        /\ comments = <<>>
        /\ ScanLines(Grammar, TokInit, file_path, 0, lines, skip_markers).comments = <<>>

\* scan_file returned early for `/* TO`, `DO */`, whose block comment the
\* pass over the lines would assemble as "TO DO"
C17_Witness ==
    /\ EarlyReturn
    /\ file_path = F_TS
    /\ lines = << <<"/", "*", " ", "T", "O">>, <<"D", "O", " ", "*", "/">> >>
    /\ LET ref == ScanLines(Grammar, TokInit, file_path, 0, lines, skip_markers)
       IN  /\ Len(ref.spans) = 1
           /\ ref.spans[1].text = <<"T", "O", " ", "D", "O">>
           /\ ref.comments = <<>>

-----------------------------------------------------------------------------
(* The text handed to _process_comment, checked under Spec *)

\* the fragment that follows the opening fragment of the block opened on
\* line i and closed on line k
NextFragment(i, k) ==
    (FragmentsOf(i + 1, k - 1) \o << BeforeEnd(Grammar, StrippedLine(k)) >>)[1]

\* C19: every comment text handed to the marker extractor is trimmed, be it
\* of a single-line comment, a same-line block or a multi-line block; hence a
\* multi-line block whose opening line has nothing after the start delimiter
\* and whose next fragment starts with a marker that is not skipped is
\* recognized as an annotation.
C19_TextIsTrimmed ==
    /\ \A x \in 1..Len(spans) : spans[x].text = Strip(spans[x].text)
    /\ \A x \in 1..Len(spans) :
          spans[x].kind = "close" =>
              LET k == spans[x].line
                  i == OpenLine(k)
              IN  (/\ Strip(AfterStart(Grammar, StrippedLine(i))) = <<>>
                   /\ \E m \in 1..Len(COMMENT_MARKERS) :
                          Qualifies(m, NextFragment(i, k)))
                  => \E j \in 1..Len(comments) : comments[j].line = k + 1

-----------------------------------------------------------------------------
(* Precedence of the block rules, checked under Spec *)

\* the next line falls to a block rule: it is read inside a block, or it
\* holds a start delimiter
BlockConsumes ==
    /\ InLoop
    /\ HasBlock(Grammar)
    /\ StrippedLine(line_num) # <<>>
    /\ \/ in_multiline_comment
       \/ Contains(StrippedLine(line_num), StartPattern(Grammar))

\* the next line holds a single-line prefix and, outside a block, a start
\* delimiter that the line does not close
PrefixAndOpen ==
    /\ BlockConsumes
    /\ ~in_multiline_comment
    /\ StartNoClose(line_num)
    /\ AnySingle(Grammar, StrippedLine(line_num))

\* C20: block handling takes precedence over single-line handling: a line
\* consumed by a block rule (same-line block, opening of a block, a line
\* inside a block) never also yields a single-line comment; a line outside a
\* block that holds a single-line prefix and a start delimiter without
\* same-line close opens the block and emits nothing; the single-line
\* prefixes are examined only on lines no block rule consumed.
C20_BlockBeforeSingleLine ==
    [][ /\ BlockConsumes =>
              \/ spans' = spans
              \/ /\ Len(spans') = Len(spans) + 1
                 /\ SubSeq(spans', 1, Len(spans)) = spans
                 /\ spans'[Len(spans')].kind # "single"
        /\ PrefixAndOpen =>
              /\ in_multiline_comment'
              /\ spans' = spans
              /\ comments' = comments
        /\ (Len(spans') > Len(spans) /\ spans'[Len(spans')].kind = "single")
              => ~BlockConsumes ]_vars

\* the line `x//!/*q` was read outside a block: the block is open and no
\* comment was emitted for the prefix `//`
C20_Witness ==
    /\ pc = "loop"
    /\ line_num = 1
    /\ lines[1] = <<"x", "/", "/", "!", "/", "*", "q">>
    /\ in_multiline_comment
    /\ multiline_content = << <<"q">> >>
    /\ spans = <<>>
    /\ M_IMPORTANT \notin skip_markers

-----------------------------------------------------------------------------
(* The grammar of an unknown extension, checked under Spec *)

\* the entry "default" of COMMENT_PATTERNS: prefix `//`, no block delimiters
DefaultGrammar == COMMENT_PATTERNS(<<"d", "e", "f", "a", "u", "l", "t">>)

\* C21: the grammar lookup for a file whose extension is absent from the
\* grammar table falls back to the default grammar (single-line prefix `//`,
\* no block delimiters), so the file is tokenized with that grammar.
C21_UnknownExtensionUsesDefault ==
    (/\ pc = "returned"
     /\ file_status = "ok"
     /\ FileExtension(file_path) \notin PatternKeys
     /\ AnyMarker(Content(lines)))
    => comments = ScanLines(DefaultGrammar, TokInit, file_path, 0, lines,
                            skip_markers).comments

-----------------------------------------------------------------------------
(* Files matched by several patterns, checked under SpecWs *)

\* how often the path p was handed to scan_file
TimesScanned(p) == Cardinality({ i \in 1..Len(scanned) : scanned[i] = p })

\* C22: in the collection scan_workspace returns, the annotations of any one
\* file appear at most once: FILE_PATTERNS lists some patterns several times
\* and the tree is traversed once per listed pattern, yet no file contributes
\* its annotations more than once.
C22_NoFileTwice ==
    /\ \A j, k \in 1..Len(all_comments) :
          j < k => ~(/\ all_comments[j].file = all_comments[k].file
                     /\ all_comments[j].line = all_comments[k].line)
    /\ \A f \in workspace :
          TimesScanned(f.path) > 1 =>
              \A j \in 1..Len(all_comments) : all_comments[j].file # RelPath(f.path)

\* c.scss, which holds `// TODOa !`, was handed to scan_file for each of the
\* three `*.scss` of FILE_PATTERNS and b.js once; the result holds the one
\* annotation of b.js
C22_Witness ==
    /\ pc = "ws_returned"
    /\ TimesScanned(<< <<"c", ".", "s", "c", "s", "s">> >>) = 3
    /\ TimesScanned(<< <<"b", ".", "j", "s">> >>) = 1
    /\ Len(all_comments) = 1
    /\ all_comments[1].file = <<"b", ".", "j", "s">>
    /\ all_comments[1].type = M_TODO

====
